---- MODULE Spec2Model ----
(***************************************************************************)
(* Outfit recommender (recommender.py), style profile manager (profile.py) *)
(* and outfit logger / wardrobe routes (backend/routers, app.py) over the  *)
(* four tables clothes, outfits, outfit_ratings and style_profile.         *)
(*                                                                         *)
(* Weights (REAL in the source) are kept in tenths: 1.0 is 10, 5.0 is 50.  *)
(* An id of 0 stands for a NULL id: the source tests ids with `if id`.     *)
(***************************************************************************)
EXTENDS Integers, Sequences, FiniteSets, TLC

VARIABLES clothes, outfits, outfit_ratings, style_profile, response, connections

vars == <<clothes, outfits, outfit_ratings, style_profile, response, connections>>

\* ------------------------------------------------------------------ bounds

\* rows the outfits table may hold
MaxOutfits == 1

\* rows the outfit_ratings table may hold
MaxRatings == 2

\* rows of the clothes table in the wardrobes SpecSuggest starts from
WardrobeSize == 4

\* ------------------------------------------------------------- value helpers

Max(a, b) == IF a >= b THEN a ELSE b

Min(a, b) == IF a <= b THEN a ELSE b

\* Python's x // d: the floor of x / d
FloorDiv(x, d) == x \div d

\* Python's int(): truncation toward zero of x / d, for d > 0
TruncDiv(x, d) == IF x >= 0 THEN x \div d ELSE -((-x) \div d)

RECURSIVE SumSeq(_)
SumSeq(s) == IF s = <<>> THEN 0 ELSE Head(s) + SumSeq(Tail(s))

RECURSIVE Concat(_)
Concat(ss) == IF ss = <<>> THEN <<>> ELSE Head(ss) \o Concat(Tail(ss))

Range(s) == {s[i] : i \in DOMAIN s}

\* SQLite NULL / Python None in a TEXT column
NULL == "NULL"

\* datetime.now().isoformat(): some non-empty timestamp text
NOW == "2024-01-01T00:00:00"

\* Python values a dict entry read by position may hold
PyNone == [ty |-> "None", val |-> 0]

PyStr == [ty |-> "str", val |-> 0]

PyInt(n) == [ty |-> "int", val |-> n]

\* ------------------------------------------------------------ clothes rows

ClothingTypes == {"top", "bottom", "dress", "shoes", "outerwear"}

Formalities == {"casual", "business-casual", "business", "formal", "athletic"}

SeasonWeights == {"light", "medium", "heavy"}

Patterns == {"solid", "striped", "checkered", "floral", "printed"}

\* a row of the clothes table, columns in the order of CREATE TABLE
ClothesRow(id, path, ty, color, pattern, formality, season) ==
    [id |-> id, image_path |-> path, clothing_type |-> ty, color_primary |-> color,
     pattern |-> pattern, formality |-> formality, season_weight |-> season,
     times_worn |-> 0, last_worn |-> NULL, in_laundry |-> 0, favorite |-> 0]

\* the dict _get_all_clothes builds from a row by column position: item[7] is
\* season_weight, item[8] is times_worn and item[9] is last_worn
ClothesDict(row) ==
    [id |-> row.id, image_path |-> row.image_path, type |-> row.clothing_type,
     color_primary |-> row.color_primary, pattern |-> row.pattern,
     formality |-> row.formality, season |-> row.season_weight,
     created_at |-> row.times_worn,
     times_worn |-> IF row.last_worn = NULL THEN PyNone ELSE PyStr]

\* the None of an outfit's empty slot
None ==
    [id |-> 0, image_path |-> "", type |-> "", color_primary |-> "", pattern |-> "",
     formality |-> "", season |-> "", created_at |-> 0, times_worn |-> PyNone]

\* the query without its WHERE clause
KeepEveryRow(row) == TRUE

InLaundryFilter(row) == row.in_laundry = 0

\* SELECT * FROM clothes WHERE in_laundry = 0 OR in_laundry IS NULL
get_all_clothes(table) ==
    LET rows == SelectSeq(table, InLaundryFilter)
    IN  [i \in 1..Len(rows) |-> ClothesDict(rows[i])]

\* --------------------------------------------------------- occasion filter

KnownOccasions == {"gym", "work", "casual", "date", "home", "party", "formal"}

occasion_rules(occasion) ==
    CASE occasion = "gym" -> {"athletic", "casual"}
      [] occasion = "work" -> {"business", "business-casual", "formal"}
      [] occasion = "casual" -> {"casual", "business-casual"}
      [] occasion = "date" -> {"business-casual", "formal", "casual"}
      [] occasion = "home" -> {"casual", "athletic"}
      [] occasion = "party" -> {"formal", "business-casual", "casual"}
      [] occasion = "formal" -> {"formal", "business"}
      [] OTHER -> {"casual"}

Bucket(items, ty, suitable_formality) ==
    LET Keep(c) == c.type = ty /\ c.formality \in suitable_formality
    IN  SelectSeq(items, Keep)

filter_by_occasion(items, occasion) ==
    LET suitable_formality == occasion_rules(occasion)
    IN  [tops |-> Bucket(items, "top", suitable_formality),
         bottoms |-> Bucket(items, "bottom", suitable_formality),
         shoes |-> Bucket(items, "shoes", suitable_formality),
         dresses |-> Bucket(items, "dress", suitable_formality),
         outerwear |-> Bucket(items, "outerwear", suitable_formality)]

\* ---------------------------------------------------------- weather filter

\* 'Rain' in condition (case-sensitive substring test)
RainConditions == {"Rain", "Light Rain"}

Conditions == {"Clear", "Rain", "Light Rain", "rain"}

\* 'sandal' in image_path.lower()
SandalPaths == {"wardrobe_images/sandal_1.jpg", "wardrobe_images/SANDALS.jpg"}

NotLight(c) == c.season # "light"

NotHeavy(c) == c.season # "heavy"

NotSandal(c) == c.image_path \notin SandalPaths

\* the filter with both temperature bounds inclusive
filter_by_weather_inclusive(suitable, weather) ==
    LET byTemp ==
            IF weather.temp <= 18
            THEN [suitable EXCEPT !.tops = SelectSeq(@, NotLight),
                                  !.bottoms = SelectSeq(@, NotLight)]
            ELSE IF weather.temp >= 32
            THEN [suitable EXCEPT !.tops = SelectSeq(@, NotHeavy),
                                  !.bottoms = SelectSeq(@, NotHeavy)]
            ELSE suitable
    IN  IF weather.condition \in RainConditions
        THEN [byTemp EXCEPT !.shoes = SelectSeq(@, NotSandal)]
        ELSE byTemp

filter_by_weather(suitable, weather) ==
    LET byTemp ==
            IF weather.temp < 18
            THEN [suitable EXCEPT !.tops = SelectSeq(@, NotLight),
                                  !.bottoms = SelectSeq(@, NotLight)]
            ELSE IF weather.temp > 32
            THEN [suitable EXCEPT !.tops = SelectSeq(@, NotHeavy),
                                  !.bottoms = SelectSeq(@, NotHeavy)]
            ELSE suitable
    IN  IF weather.condition \in RainConditions
        THEN [byTemp EXCEPT !.shoes = SelectSeq(@, NotSandal)]
        ELSE byTemp

\* ----------------------------------------------------------- combinations

RegularOutfit(top, bottom, shoe) ==
    [type |-> "regular", top |-> top, bottom |-> bottom, shoes |-> shoe, dress |-> None]

DressOutfit(dress, shoe) ==
    [type |-> "dress", top |-> None, bottom |-> None, shoes |-> shoe, dress |-> dress]

RegularFor(top, bottom, shoes) ==
    IF shoes # <<>>
    THEN [k \in 1..Len(shoes) |-> RegularOutfit(top, bottom, shoes[k])]
    ELSE <<RegularOutfit(top, bottom, None)>>

DressFor(dress, shoes) ==
    IF shoes # <<>>
    THEN [k \in 1..Len(shoes) |-> DressOutfit(dress, shoes[k])]
    ELSE <<DressOutfit(dress, None)>>

\* combinations built over the shoes alone: none when there are no shoes
create_combinations_shoes_required(suitable) ==
    LET regular ==
            Concat([i \in 1..Len(suitable.tops) |->
                Concat([j \in 1..Len(suitable.bottoms) |->
                    [k \in 1..Len(suitable.shoes) |->
                        RegularOutfit(suitable.tops[i], suitable.bottoms[j],
                                      suitable.shoes[k])]])])
        dress ==
            Concat([i \in 1..Len(suitable.dresses) |->
                [k \in 1..Len(suitable.shoes) |->
                    DressOutfit(suitable.dresses[i], suitable.shoes[k])]])
    IN  regular \o dress

create_combinations(suitable) ==
    LET regular ==
            Concat([i \in 1..Len(suitable.tops) |->
                Concat([j \in 1..Len(suitable.bottoms) |->
                    RegularFor(suitable.tops[i], suitable.bottoms[j], suitable.shoes)])])
        dress ==
            Concat([i \in 1..Len(suitable.dresses) |->
                DressFor(suitable.dresses[i], suitable.shoes)])
    IN  regular \o dress

\* ---------------------------------------------------------------- colours

\* color.lower() on the colours of the palette
Lower(color) ==
    CASE color = "#FFFFFF" -> "#ffffff"
      [] color = "#FF0000" -> "#ff0000"
      [] OTHER -> color

\* int(color[1:3], 16), int(color[3:5], 16), int(color[5:7], 16); <<>> when the
\* text does not parse (the bare except of _color_distance)
HexRGB(color) ==
    CASE Lower(color) = "#000000" -> <<0, 0, 0>>
      [] Lower(color) = "#ffffff" -> <<255, 255, 255>>
      [] Lower(color) = "#808080" -> <<128, 128, 128>>
      [] Lower(color) = "#909090" -> <<144, 144, 144>>
      [] Lower(color) = "#ff0000" -> <<255, 0, 0>>
      [] Lower(color) = "#f00000" -> <<240, 0, 0>>
      [] Lower(color) = "#0000ff" -> <<0, 0, 255>>
      [] OTHER -> <<>>

Colors == {"", "#000000", "#FFFFFF", "#808080", "#909090", "#ff0000", "#FF0000",
           "#f00000", "#0000ff", "red"}

neutrals == {"#000000", "#ffffff", "#808080", "#d3d3d3", "#a9a9a9", "#2f4f4f", "#696969"}

\* the square of _color_distance; the except branch returns 100
color_distance_sq(color1, color2) ==
    LET a == HexRGB(color1)
        b == HexRGB(color2)
    IN  IF a = <<>> \/ b = <<>>
        THEN 100 * 100
        ELSE (a[1] - b[1]) * (a[1] - b[1]) + (a[2] - b[2]) * (a[2] - b[2])
             + (a[3] - b[3]) * (a[3] - b[3])

is_neutral_color(color) ==
    IF color = ""
    THEN TRUE
    ELSE Lower(color) \in neutrals \/ color_distance_sq(color, "#808080") < 50 * 50

colors_similar(color1, color2) ==
    IF color1 = "" \/ color2 = ""
    THEN FALSE
    ELSE color_distance_sq(color1, color2) < 30 * 30

high_contrast(color1, color2) ==
    IF color1 = "" \/ color2 = ""
    THEN FALSE
    ELSE color_distance_sq(color1, color2) > 150 * 150

\* ---------------------------------------------------------------- scoring

\* the items _score_weather looks at
WeatherItems(outfit) ==
    IF outfit.type = "regular" THEN <<outfit.top, outfit.bottom>> ELSE <<outfit.dress>>

weather_points(season, temp) ==
    IF temp < 18
    THEN (IF season = "heavy" THEN 15 ELSE IF season = "medium" THEN 8 ELSE -10)
    ELSE IF temp > 32
    THEN (IF season = "light" THEN 15 ELSE IF season = "medium" THEN 8 ELSE -10)
    ELSE (IF season = "medium" THEN 10 ELSE 5)

score_weather(outfit, weather) ==
    LET items == WeatherItems(outfit)
    IN  SumSeq([i \in 1..Len(items) |-> weather_points(items[i].season, weather.temp)])

\* the colour score with the similarity and the contrast bonus granted together
score_colors_stacking(outfit) ==
    IF outfit.type # "regular"
    THEN 15
    ELSE LET top_color == outfit.top.color_primary
             bottom_color == outfit.bottom.color_primary
             top_neutral == is_neutral_color(top_color)
             bottom_neutral == is_neutral_color(bottom_color)
         IN  (IF top_neutral \/ bottom_neutral THEN 15 ELSE 0)
             + (IF top_neutral /\ bottom_neutral THEN 5 ELSE 0)
             + (IF colors_similar(top_color, bottom_color)
                   \/ high_contrast(top_color, bottom_color) THEN 10 + 8 ELSE 0)

score_colors(outfit) ==
    IF outfit.type # "regular"
    THEN 15
    ELSE LET top_color == outfit.top.color_primary
             bottom_color == outfit.bottom.color_primary
             top_neutral == is_neutral_color(top_color)
             bottom_neutral == is_neutral_color(bottom_color)
         IN  (IF top_neutral \/ bottom_neutral THEN 15 ELSE 0)
             + (IF top_neutral /\ bottom_neutral THEN 5 ELSE 0)
             + (IF colors_similar(top_color, bottom_color) THEN 10 ELSE 0)
             + (IF high_contrast(top_color, bottom_color) THEN 8 ELSE 0)

\* the items of an outfit: top, bottom (or dress), then shoes if present
OutfitItems(outfit) ==
    (IF outfit.type = "regular" THEN <<outfit.top, outfit.bottom>> ELSE <<outfit.dress>>)
    \o (IF outfit.shoes # None THEN <<outfit.shoes>> ELSE <<>>)

\* times_worn = item.get('times_worn', 0) or 0
TimesWornOf(item) == IF item.times_worn.ty = "None" THEN PyInt(0) ELSE item.times_worn

\* `times_worn < 3` between a str and an int raises TypeError
variety_raises(outfit) ==
    \E i \in DOMAIN OutfitItems(outfit) : TimesWornOf(OutfitItems(outfit)[i]).ty = "str"

variety_points(times_worn) ==
    IF times_worn = 0 THEN 10
    ELSE IF times_worn < 3 THEN 5
    ELSE IF times_worn < 10 THEN 0
    ELSE -5

score_variety(outfit) ==
    LET items == OutfitItems(outfit)
    IN  SumSeq([i \in 1..Len(items) |-> variety_points(TimesWornOf(items[i]).val)])

score_patterns(outfit) ==
    IF outfit.type = "dress"
    THEN 5
    ELSE LET top_pattern == outfit.top.pattern
             bottom_pattern == outfit.bottom.pattern
         IN  IF top_pattern = "solid" /\ bottom_pattern = "solid" THEN 10
             ELSE IF top_pattern = "solid" \/ bottom_pattern = "solid" THEN 8
             ELSE -5

\* the score of one outfit for the jitter value random.randint(0, 10) drew
outfit_score(outfit, weather, jitter) ==
    50 + score_weather(outfit, weather) + score_colors(outfit) + score_variety(outfit)
    + score_patterns(outfit) + jitter

\* sorted(..., reverse=True) keeps the order of equal keys: e goes after every
\* element whose score is >= its own
RECURSIVE InsertDesc(_, _)
InsertDesc(s, e) ==
    IF s = <<>> THEN <<e>>
    ELSE IF Head(s).score >= e.score THEN <<Head(s)>> \o InsertDesc(Tail(s), e)
    ELSE <<e>> \o s

RECURSIVE SortedDesc(_)
SortedDesc(s) ==
    IF s = <<>> THEN <<>> ELSE InsertDesc(SortedDesc(SubSeq(s, 1, Len(s) - 1)), s[Len(s)])

\* jitter[i] is the random integer drawn for the i-th combination
score_outfits(combos, weather, occasion, jitter) ==
    SortedDesc([i \in 1..Len(combos) |->
        [outfit |-> combos[i], score |-> outfit_score(combos[i], weather, jitter[i])]])

score_raises(combos) == \E i \in DOMAIN combos : variety_raises(combos[i])

\* ---------------------------------------------------------------- selection

\* the ids of the items of an outfit
outfit_item_ids(outfit) == {OutfitItems(outfit)[i].id : i \in DOMAIN OutfitItems(outfit)}

\* the first pass without its overlap test
RECURSIVE FirstPassAnyOverlap(_, _, _, _)
FirstPassAnyOverlap(scored, num, i, acc) ==
    IF i > Len(scored) \/ Len(acc[1]) >= num
    THEN acc
    ELSE FirstPassAnyOverlap(scored, num, i + 1, <<Append(acc[1], scored[i]), acc[2]>>)

\* the first pass from position i on: acc is <<selected, used_items>>
RECURSIVE FirstPass(_, _, _, _)
FirstPass(scored, num, i, acc) ==
    IF i > Len(scored) \/ Len(acc[1]) >= num
    THEN acc
    ELSE IF outfit_item_ids(scored[i].outfit) \cap acc[2] = {}
    THEN FirstPass(scored, num, i + 1,
                   <<Append(acc[1], scored[i]), acc[2] \cup outfit_item_ids(scored[i].outfit)>>)
    ELSE FirstPass(scored, num, i + 1, acc)

\* the second pass from position i on
RECURSIVE SecondPass(_, _, _, _)
SecondPass(scored, num, i, selected) ==
    IF i > Len(scored) \/ Len(selected) >= num
    THEN selected
    ELSE IF scored[i] \notin Range(selected)
    THEN SecondPass(scored, num, i + 1, Append(selected, scored[i]))
    ELSE SecondPass(scored, num, i + 1, selected)

select_diverse_outfits(scored_outfits, num) ==
    IF Len(scored_outfits) <= num
    THEN scored_outfits
    ELSE LET first == FirstPass(scored_outfits, num, 1, <<(<<>>), {}>>)[1]
             selected == IF Len(first) < num
                         THEN SecondPass(scored_outfits, num, 1, first)
                         ELSE first
         IN  SubSeq(selected, 1, Min(num, Len(selected)))

\* ------------------------------------------------------------ get_suggestions

\* the steps without the len(clothes) < 2 return
suggest_combos_any_count(table, occasion, weather) ==
    LET suitable == filter_by_occasion(get_all_clothes(table), occasion)
    IN  IF (suitable.tops = <<>> \/ suitable.bottoms = <<>>) /\ suitable.dresses = <<>>
        THEN <<>>
        ELSE create_combinations(filter_by_weather(suitable, weather))

\* the combinations step 3 builds; <<>> when an earlier step returned
suggest_combos(table, occasion, weather) ==
    LET items == get_all_clothes(table)
        suitable == filter_by_occasion(items, occasion)
    IN  IF Len(items) < 2 THEN <<>>
        ELSE IF (suitable.tops = <<>> \/ suitable.bottoms = <<>>) /\ suitable.dresses = <<>>
        THEN <<>>
        ELSE create_combinations(filter_by_weather(suitable, weather))

\* what a call of get_suggestions comes to: the list it returns, or the TypeError
\* _score_variety raises while the combinations are scored
get_suggestions(table, occasion, weather, num_suggestions, jitter) ==
    LET all_combos == suggest_combos(table, occasion, weather)
    IN  IF all_combos = <<>>
        THEN [status |-> "ok", result |-> <<>>]
        ELSE IF score_raises(all_combos)
        THEN [status |-> "TypeError", result |-> <<>>]
        ELSE [status |-> "ok",
              result |-> select_diverse_outfits(
                             score_outfits(all_combos, weather, occasion, jitter),
                             num_suggestions)]

\* ------------------------------------------------------- style profile manager

\* the style_profile row of a key, 0 when the table holds none
ProfileIndex(profile, pref_type, pref_value) ==
    IF \E i \in DOMAIN profile : profile[i].preference_type = pref_type
                                 /\ profile[i].preference_value = pref_value
    THEN CHOOSE i \in DOMAIN profile : profile[i].preference_type = pref_type
                                       /\ profile[i].preference_value = pref_value
    ELSE 0

\* the upsert without MAX(0.0, MIN(5.0, ...)) in its DO UPDATE
update_preference_unclamped(profile, pref_type, pref_value, weight_change) ==
    LET i == ProfileIndex(profile, pref_type, pref_value)
    IN  IF i = 0
        THEN Append(profile, [preference_type |-> pref_type, preference_value |-> pref_value,
                              weight |-> 10 + weight_change])
        ELSE [profile EXCEPT ![i].weight = @ + weight_change]

\* INSERT ... VALUES (?, ?, 1.0 + weight_change) ON CONFLICT(preference_type,
\* preference_value) DO UPDATE SET weight = MAX(0.0, MIN(5.0, weight + ?))
update_preference(profile, pref_type, pref_value, weight_change) ==
    LET i == ProfileIndex(profile, pref_type, pref_value)
    IN  IF i = 0
        THEN Append(profile, [preference_type |-> pref_type, preference_value |-> pref_value,
                              weight |-> 10 + weight_change])
        ELSE [profile EXCEPT ![i].weight = Max(0, Min(50, @ + weight_change))]

\* SELECT ... FROM outfits WHERE id = ? / FROM clothes WHERE id = ?
RowIndex(table, id) ==
    IF \E i \in DOMAIN table : table[i].id = id
    THEN CHOOSE i \in DOMAIN table : table[i].id = id
    ELSE 0

\* the three updates rate_outfit makes for one item of the outfit
LearnItem(profile, table, item_id, rating) ==
    LET i == RowIndex(table, item_id)
        weight_change == (rating - 3) * 5
    IN  IF i = 0
        THEN profile
        ELSE LET p1 == IF table[i].color_primary # ""
                       THEN update_preference(profile, "color", table[i].color_primary,
                                              weight_change)
                       ELSE profile
                 p2 == IF table[i].formality # ""
                       THEN update_preference(p1, "formality", table[i].formality,
                                              weight_change)
                       ELSE p1
             IN  IF table[i].pattern # ""
                 THEN update_preference(p2, "pattern", table[i].pattern, weight_change)
                 ELSE p2

RECURSIVE LearnItems(_, _, _, _)
LearnItems(profile, table, item_ids, rating) ==
    IF item_ids = <<>>
    THEN profile
    ELSE LearnItems(LearnItem(profile, table, Head(item_ids), rating), table,
                    Tail(item_ids), rating)

IsSet(id) == id # 0

\* item_ids = [id for id in [top_id, bottom_id, shoes_id] if id]
RatedItemIds(outfit) == SelectSeq(<<outfit.top_id, outfit.bottom_id, outfit.shoes_id>>, IsSet)

\* the style_profile table after rate_outfit(outfit_id, rating)
rate_outfit(profile, logged, table, outfit_id, rating) ==
    LET i == RowIndex(logged, outfit_id)
    IN  IF i = 0
        THEN profile
        ELSE LET learned == LearnItems(profile, table, RatedItemIds(logged[i]), rating)
             IN  IF logged[i].occasion # ""
                 THEN update_preference(learned, "occasion", logged[i].occasion,
                                        (rating - 3) * 3)
                 ELSE learned

\* the {value: weight} dict of one preference type, as a set of pairs
Mapping(profile, pref_type) ==
    {<<profile[i].preference_value, profile[i].weight>> :
        i \in {j \in DOMAIN profile : profile[j].preference_type = pref_type}}

\* get_preferences(): rows of another type than the four of type_map are dropped
get_preferences(profile) ==
    [colors |-> Mapping(profile, "color"),
     formality |-> Mapping(profile, "formality"),
     patterns |-> Mapping(profile, "pattern"),
     occasions |-> Mapping(profile, "occasion")]

\* get_preferences: the weight of a key in its mapping, -1 when the key is absent
PreferenceWeight(profile, pref_type, pref_value) ==
    LET i == ProfileIndex(profile, pref_type, pref_value)
    IN  IF i = 0 THEN -1 ELSE profile[i].weight

\* the bonus one item adds, in tenths of a point
ItemBonus10(profile, item) ==
    LET c == PreferenceWeight(profile, "color", item.color_primary)
        f == PreferenceWeight(profile, "formality", item.formality)
        p == PreferenceWeight(profile, "pattern", item.pattern)
    IN  (IF item.color_primary # "" /\ c # -1 THEN (c - 10) * 10 ELSE 0)
        + (IF item.formality # "" /\ f # -1 THEN (f - 10) * 8 ELSE 0)
        + (IF item.pattern # "" /\ p # -1 THEN (p - 10) * 5 ELSE 0)

\* int(bonus) over the items of the outfit
apply_style_bonus(profile, outfit) ==
    LET items == OutfitItems(outfit)
    IN  TruncDiv(SumSeq([i \in 1..Len(items) |-> ItemBonus10(profile, items[i])]), 10)

\* round(sum / n, 1) in tenths, ties to the even tenth (exact below 20 ratings,
\* where every tie is a binary fraction)
RoundedAverage(sum, n) ==
    LET q == (10 * sum) \div n
        r == (10 * sum) % n
    IN  IF 2 * r < n THEN q
        ELSE IF 2 * r > n THEN q + 1
        ELSE IF q % 2 = 0 THEN q ELSE q + 1

\* get_stats(): COUNT(*), round(AVG(rating) or 0, 1) and the GROUP BY rating counts
get_stats(ratings) ==
    [total_ratings |-> Len(ratings),
     average_rating |-> IF ratings = <<>> THEN 0
                        ELSE RoundedAverage(SumSeq([k \in DOMAIN ratings |-> ratings[k].rating]),
                                            Len(ratings)),
     distribution |-> {<<r, Cardinality({k \in DOMAIN ratings : ratings[k].rating = r})>> :
                          r \in {ratings[k].rating : k \in DOMAIN ratings}}]

\* ------------------------------------------------------------- outfit logger

OutfitRow(id, req) ==
    [id |-> id, top_id |-> req.top_id, bottom_id |-> req.bottom_id,
     shoes_id |-> req.shoes_id, dress_id |-> req.dress_id,
     outerwear_id |-> req.outerwear_id, occasion |-> req.occasion]

\* UPDATE clothes SET times_worn = COALESCE(times_worn, 0) + 1, last_worn = ?
\* WHERE id = ?
MarkWorn(table, item_id) ==
    [i \in DOMAIN table |->
        IF table[i].id = item_id
        THEN [table[i] EXCEPT !.times_worn = @ + 1, !.last_worn = NOW]
        ELSE table[i]]

\* for item_id in [...]: if item_id: UPDATE ...
RECURSIVE MarkAllWorn(_, _)
MarkAllWorn(table, item_ids) ==
    IF item_ids = <<>>
    THEN table
    ELSE IF IsSet(Head(item_ids))
    THEN MarkAllWorn(MarkWorn(table, Head(item_ids)), Tail(item_ids))
    ELSE MarkAllWorn(table, Tail(item_ids))

LoggedSlots(req) ==
    <<req.top_id, req.bottom_id, req.shoes_id, req.dress_id, req.outerwear_id>>

\* the request app.log_outfit builds from a suggested outfit
WornRequest(outfit, occasion) ==
    [top_id |-> IF outfit.type = "regular" THEN outfit.top.id ELSE 0,
     bottom_id |-> IF outfit.type = "regular" THEN outfit.bottom.id ELSE 0,
     shoes_id |-> IF outfit.shoes # None THEN outfit.shoes.id ELSE 0,
     dress_id |-> IF outfit.type = "dress" THEN outfit.dress.id ELSE 0,
     outerwear_id |-> 0,
     occasion |-> occasion]

\* ------------------------------------------------------------------ state

\* what the last call was and what its caller got back
Response(op, status) ==
    [op |-> op, status |-> status, id |-> 0, rating |-> 0, occasion |-> "",
     weather |-> [temp |-> 0, condition |-> ""], num |-> 0, jitter |-> <<>>,
     result |-> <<>>]

\* the wardrobe of Spec: two tops, a bottom, a pair of shoes and a dress, unworn
Closet ==
    <<ClothesRow(1, "wardrobe_images/a.jpg", "top", "#ff0000", "solid", "casual", "light"),
      ClothesRow(2, "wardrobe_images/b.jpg", "top", "#000000", "striped", "casual", "medium"),
      ClothesRow(3, "wardrobe_images/c.jpg", "bottom", "#0000ff", "solid", "casual", "light"),
      ClothesRow(4, "wardrobe_images/d.jpg", "shoes", "#FFFFFF", "solid", "casual", "medium"),
      ClothesRow(5, "wardrobe_images/e.jpg", "dress", "#ff0000", "floral", "casual", "medium")>>

\* an id no row of the clothes table has
NoSuchItem == Len(Closet) + 1

\* the callers whose rate_outfit calls may overlap
Callers == {1, 2}

\* the connection of a caller that is not inside rate_outfit; outcome tells how
\* its last call ended and contended whether that call found the database locked
Closed(outcome, contended) ==
    [pc |-> "closed", outfit_id |-> 0, rating |-> 0, profile |-> <<>>, todo |-> <<>>,
     outcome |-> outcome, contended |-> contended]

NoCallInFlight == connections = [p \in Callers |-> Closed("", FALSE)]

TablesEmpty ==
    /\ outfits = <<>>
    /\ outfit_ratings = <<>>
    /\ style_profile = <<>>
    /\ response = Response("init", "ok")
    /\ NoCallInFlight

Init ==
    /\ clothes = Closet
    /\ TablesEmpty

\* ---------------------------------------------------------------- actions

\* get_suggestions counting a wear of the items of the first outfit it returns
SuggestCountingWear(occasion, weather, num, jitter) ==
    \E out \in {get_suggestions(clothes, occasion, weather, num, jitter)} :
        /\ response' = [Response("suggest", out.status) EXCEPT
                          !.occasion = occasion, !.weather = weather, !.num = num,
                          !.jitter = IF out.status = "ok" THEN jitter ELSE <<>>,
                          !.result = out.result]
        /\ clothes' = IF out.result = <<>>
                      THEN clothes
                      ELSE MarkAllWorn(clothes,
                                       LoggedSlots(WornRequest(out.result[1].outfit, occasion)))
        /\ UNCHANGED <<outfits, outfit_ratings, style_profile, connections>>

\* OutfitRecommender.get_suggestions(occasion, weather, num_suggestions); jitter
\* holds the values random.randint(0, 10) returns, one per combination
Suggest(occasion, weather, num, jitter) ==
    /\ \E out \in {get_suggestions(clothes, occasion, weather, num, jitter)} :
           response' = [Response("suggest", out.status) EXCEPT
                          !.occasion = occasion, !.weather = weather, !.num = num,
                          !.jitter = IF out.status = "ok" THEN jitter ELSE <<>>,
                          !.result = out.result]
    /\ UNCHANGED <<clothes, outfits, outfit_ratings, style_profile, connections>>

\* POST /api/outfits/log
LogOutfit(req) ==
    /\ Len(outfits) < MaxOutfits
    /\ outfits' = Append(outfits, OutfitRow(Len(outfits) + 1, req))
    /\ clothes' = MarkAllWorn(clothes, LoggedSlots(req))
    /\ response' = [Response("log", "ok") EXCEPT !.id = Len(outfits) + 1]
    /\ UNCHANGED <<outfit_ratings, style_profile, connections>>

\* app.log_outfit(outfit, occasion, weather) on the k-th suggestion shown
WearThis(k) ==
    /\ response.op = "suggest"
    /\ k \in DOMAIN response.result
    /\ Len(outfits) < MaxOutfits
    /\ LET req == WornRequest(response.result[k].outfit, response.occasion)
       IN  /\ outfits' = Append(outfits, OutfitRow(Len(outfits) + 1, req))
           /\ clothes' = MarkAllWorn(clothes, <<req.top_id, req.bottom_id, req.shoes_id,
                                                req.dress_id>>)
    /\ response' = [Response("wear", "ok") EXCEPT !.id = Len(outfits) + 1]
    /\ UNCHANGED <<outfit_ratings, style_profile, connections>>

\* rate_outfit looking the outfit up first and returning when there is none
RateOutfitLookupFirst(outfit_id, rating) ==
    /\ Len(outfit_ratings) < MaxRatings
    /\ outfit_ratings' = IF RowIndex(outfits, outfit_id) = 0
                         THEN outfit_ratings
                         ELSE Append(outfit_ratings, [outfit_id |-> outfit_id, rating |-> rating])
    /\ style_profile' = rate_outfit(style_profile, outfits, clothes, outfit_id, rating)
    /\ response' = [Response("rate", "ok") EXCEPT !.id = outfit_id, !.rating = rating]
    /\ UNCHANGED <<clothes, outfits, connections>>

\* StyleProfileManager.rate_outfit(outfit_id, rating); it returns None on every path
RateOutfit(outfit_id, rating) ==
    /\ Len(outfit_ratings) < MaxRatings
    /\ outfit_ratings' = Append(outfit_ratings, [outfit_id |-> outfit_id, rating |-> rating])
    /\ style_profile' = rate_outfit(style_profile, outfits, clothes, outfit_id, rating)
    /\ response' = [Response("rate", "ok") EXCEPT !.id = outfit_id, !.rating = rating]
    /\ UNCHANGED <<clothes, outfits, connections>>

\* a reset whose DELETE is narrowed to the colour rows
ResetColorsOnly ==
    /\ style_profile' = SelectSeq(style_profile, LAMBDA row : row.preference_type # "color")
    /\ response' = Response("reset", "ok")
    /\ UNCHANGED <<clothes, outfits, outfit_ratings, connections>>

\* a reset that deletes the ratings history with the weights
ResetWithHistory ==
    /\ style_profile' = <<>>
    /\ outfit_ratings' = <<>>
    /\ response' = Response("reset", "ok")
    /\ UNCHANGED <<clothes, outfits, connections>>

\* StyleProfileManager.apply_style_bonus(outfit): the caller gets the bonus back
ApplyStyleBonus(outfit) ==
    /\ response' = [Response("bonus", "ok") EXCEPT
                      !.result = <<[outfit |-> outfit,
                                    score |-> apply_style_bonus(style_profile, outfit)]>>]
    /\ UNCHANGED <<clothes, outfits, outfit_ratings, style_profile, connections>>

\* StyleProfileManager.reset_profile()
ResetProfile ==
    /\ style_profile' = <<>>
    /\ response' = Response("reset", "ok")
    /\ UNCHANGED <<clothes, outfits, outfit_ratings, connections>>

Flip(flag) == IF flag = 0 THEN 1 ELSE 0

\* POST /api/clothes/{item_id}/laundry
ToggleLaundry(item_id) ==
    /\ clothes' = [i \in DOMAIN clothes |->
                     IF clothes[i].id = item_id
                     THEN [clothes[i] EXCEPT !.in_laundry = Flip(@)]
                     ELSE clothes[i]]
    /\ response' = Response("laundry", IF RowIndex(clothes, item_id) = 0 THEN "404" ELSE "ok")
    /\ UNCHANGED <<outfits, outfit_ratings, style_profile, connections>>

\* POST /api/clothes/{item_id}/favorite
ToggleFavorite(item_id) ==
    /\ clothes' = [i \in DOMAIN clothes |->
                     IF clothes[i].id = item_id
                     THEN [clothes[i] EXCEPT !.favorite = Flip(@)]
                     ELSE clothes[i]]
    /\ response' = Response("favorite", IF RowIndex(clothes, item_id) = 0 THEN "404" ELSE "ok")
    /\ UNCHANGED <<outfits, outfit_ratings, style_profile, connections>>

\* the fields a ClothingUpdate may set; NULL is a field left unset or None
UpdateFields == {"formality", "in_laundry", "favorite"}

\* value = 1 if value else 0 for the two flags
ColumnValue(field, value) ==
    IF field \in {"in_laundry", "favorite"}
    THEN (IF value = "true" THEN 1 ELSE 0)
    ELSE value

\* an update that also writes the times_worn column back to its default
UpdatedRowResettingWear(row, update) ==
    [f \in DOMAIN row |->
        IF f = "times_worn" THEN 0
        ELSE IF f \in UpdateFields /\ update[f] # NULL THEN ColumnValue(f, update[f])
        ELSE row[f]]

UpdatedRow(row, update) ==
    [f \in DOMAIN row |->
        IF f \in UpdateFields /\ update[f] # NULL THEN ColumnValue(f, update[f]) ELSE row[f]]

\* PUT /api/clothes/{item_id}
UpdateClothing(item_id, update) ==
    /\ clothes' = IF \A f \in UpdateFields : update[f] = NULL
                  THEN clothes
                  ELSE [i \in DOMAIN clothes |->
                          IF clothes[i].id = item_id
                          THEN UpdatedRow(clothes[i], update)
                          ELSE clothes[i]]
    /\ response' = Response("update",
                            IF \A f \in UpdateFields : update[f] = NULL THEN "400"
                            ELSE IF RowIndex(clothes, item_id) = 0 THEN "404"
                            ELSE "ok")
    /\ UNCHANGED <<outfits, outfit_ratings, style_profile, connections>>

\* ------------------------------------------------------------------ inputs

Weather(temp, condition) == [temp |-> temp, condition |-> condition]

LogRequest(top, bottom, shoes, dress, outerwear, occasion) ==
    [top_id |-> top, bottom_id |-> bottom, shoes_id |-> shoes, dress_id |-> dress,
     outerwear_id |-> outerwear, occasion |-> occasion]

\* requests the log route accepts: a top alone, one id in two slots beside an
\* id of no row, and a dress with shoes
LogRequests ==
    {LogRequest(1, 0, 0, 0, 0, "casual"),
     LogRequest(3, 3, NoSuchItem, 0, 0, "casual"),
     LogRequest(0, 0, 4, 5, 0, "date")}

Updates ==
    {[formality |-> NULL, in_laundry |-> "true", favorite |-> NULL],
     [formality |-> NULL, in_laundry |-> "false", favorite |-> "true"],
     [formality |-> NULL, in_laundry |-> NULL, favorite |-> NULL]}

\* every jitter value is drawn anew per combination; the values kept are the
\* two ends of random.randint(0, 10)
JitterValues == {0, 10}

SameJitter(n) == {[i \in 1..n |-> j] : j \in JitterValues}

AnyJitter(n) == [1..n -> JitterValues]

\* ---------------------------------------------------------- specifications

SuggestStep ==
    \E n \in {Len(suggest_combos(clothes, "casual", Weather(25, "Clear")))} :
        \E num \in 1..2 : \E jitter \in SameJitter(n) :
            Suggest("casual", Weather(25, "Clear"), num, jitter)

LogStep == \E req \in LogRequests : LogOutfit(req)

WearStep == \E k \in 1..2 : WearThis(k)

\* one rating value here; SpecProfile and SpecAnyRating vary the rating
RateStep == \E outfit_id \in 1..2 : RateOutfit(outfit_id, 5)

LaundryStep == \E item_id \in {1, NoSuchItem} : ToggleLaundry(item_id)

FavoriteStep == \E item_id \in {1, NoSuchItem} : ToggleFavorite(item_id)

UpdateStep == \E item_id \in {1, NoSuchItem} : \E update \in Updates : UpdateClothing(item_id, update)

Next ==
    \/ SuggestStep
    \/ LogStep
    \/ WearStep
    \/ RateStep
    \/ ResetProfile
    \/ LaundryStep
    \/ FavoriteStep
    \/ UpdateStep

Spec == Init /\ [][Next]_vars

\* ------------------------------------------- the recommender on any wardrobe

\* the rows wardrobes are drawn from, without their ids
ItemKinds ==
    <<ClothesRow(0, "wardrobe_images/t1.jpg", "top", "#ff0000", "solid", "casual", "light"),
      ClothesRow(0, "wardrobe_images/t2.jpg", "top", "#000000", "striped", "formal", "heavy"),
      ClothesRow(0, "wardrobe_images/b1.jpg", "bottom", "#0000ff", "solid", "casual", "light"),
      ClothesRow(0, "wardrobe_images/b2.jpg", "bottom", "#FFFFFF", "floral", "formal", "medium"),
      ClothesRow(0, "wardrobe_images/s1.jpg", "shoes", "#000000", "solid", "casual", "medium"),
      ClothesRow(0, "wardrobe_images/sandal_1.jpg", "shoes", "#808080", "solid", "casual", "light"),
      ClothesRow(0, "wardrobe_images/d1.jpg", "dress", "#f00000", "floral", "casual", "medium"),
      ClothesRow(0, "wardrobe_images/t4.jpg", "top", "#0000ff", "solid", "business-casual",
                 "medium"),
      [ClothesRow(0, "wardrobe_images/t3.jpg", "top", "#909090", "printed", "casual", "medium")
         EXCEPT !.in_laundry = 1],
      [ClothesRow(0, "wardrobe_images/b3.jpg", "bottom", "red", "checkered", "casual", "heavy")
         EXCEPT !.times_worn = 1, !.last_worn = NOW]>>

\* the ways to draw n kinds, in the order of ItemKinds
KindChoices(n) ==
    {g \in [1..n -> DOMAIN ItemKinds] : \A i \in 1..n - 1 : g[i] <= g[i + 1]}

\* the wardrobes of n rows, ids in insertion order
Wardrobes(n) ==
    {[i \in 1..n |-> [ItemKinds[f[i]] EXCEPT !.id = i]] : f \in KindChoices(n)}

InitSuggest ==
    /\ clothes \in UNION {Wardrobes(k) : k \in 0..WardrobeSize}
    /\ TablesEmpty

\* one call on the wardrobe drawn
SuggestOnce ==
    /\ response.op = "init"
    /\ \E occasion \in {"casual", "formal", "brunch"} : \E temp \in {10, 25} :
       \E condition \in {"Clear", "Rain"} : \E num \in 1..3 :
       \E n \in {Len(suggest_combos(clothes, occasion, Weather(temp, condition)))} :
       \E jitter \in AnyJitter(n) :
           Suggest(occasion, Weather(temp, condition), num, jitter)

SpecSuggest == InitSuggest /\ [][SuggestOnce]_vars

\* ------------------------------------------------- the style profile alone

\* a regular outfit of three casual, solid items
ProfileLogStep == LogOutfit(LogRequest(1, 3, 4, 0, 0, "casual"))

ProfileRateStep == \E outfit_id \in 1..2 : \E rating \in 1..5 : RateOutfit(outfit_id, rating)

NextProfile ==
    \/ ProfileLogStep
    \/ ProfileRateStep
    \/ ResetProfile

SpecProfile == Init /\ [][NextProfile]_vars

\* ratings the manager is handed without a check of their range
AnyRateStep ==
    \E outfit_id \in 1..2 : \E rating \in {0, 1, 5, 6, 12} : RateOutfit(outfit_id, rating)

NextAnyRating ==
    \/ ProfileLogStep
    \/ AnyRateStep
    \/ ResetProfile

SpecAnyRating == Init /\ [][NextAnyRating]_vars

\* ------------------------------------------------- the bonus of an outfit

\* every outfit the rows of Closet combine to
EveryOutfit == create_combinations(filter_by_occasion(get_all_clothes(Closet), "casual"))

BonusStep == \E k \in DOMAIN EveryOutfit : ApplyStyleBonus(EveryOutfit[k])

\* a top alone, or the regular outfit of three items
BonusLogStep ==
    \E req \in {LogRequest(1, 0, 0, 0, 0, "casual"), LogRequest(1, 3, 4, 0, 0, "casual")} :
        LogOutfit(req)

NextBonus ==
    \/ BonusLogStep
    \/ ProfileRateStep
    \/ ResetProfile
    \/ BonusStep

SpecBonus == Init /\ [][NextBonus]_vars

\* ------------------------------------------ learning from any logged outfit

\* a wardrobe with a formal top and a formal dress; the top and the shoes share
\* a colour
LearnCloset ==
    <<ClothesRow(1, "wardrobe_images/f1.jpg", "top", "#000000", "solid", "formal", "medium"),
      ClothesRow(2, "wardrobe_images/f2.jpg", "bottom", "#0000ff", "solid", "casual", "light"),
      ClothesRow(3, "wardrobe_images/f3.jpg", "shoes", "#000000", "solid", "casual", "medium"),
      ClothesRow(4, "wardrobe_images/f4.jpg", "dress", "#ff0000", "floral", "formal", "medium")>>

InitLearn ==
    /\ clothes = LearnCloset
    /\ TablesEmpty

\* a regular outfit, a dress with shoes, and one item named in two slots
LearnRequests ==
    {LogRequest(1, 2, 3, 0, 0, "work"),
     LogRequest(0, 0, 3, 4, 0, "formal"),
     LogRequest(2, 2, 0, 0, 0, "casual")}

LearnLogStep == \E req \in LearnRequests : LogOutfit(req)

LearnRateStep == \E outfit_id \in 1..2 : \E rating \in 1..5 : RateOutfit(outfit_id, rating)

NextLearn ==
    \/ LearnLogStep
    \/ LearnRateStep
    \/ ResetProfile

SpecLearn == InitLearn /\ [][NextLearn]_vars

\* ----------------------------------------------- a streak of 5-star ratings

\* the longest streak of ratings of one outfit
MaxStreak == 6

\* rate_outfit(1, 5) once more
StreakRate ==
    /\ Len(outfit_ratings) < MaxStreak
    /\ outfit_ratings' = Append(outfit_ratings, [outfit_id |-> 1, rating |-> 5])
    /\ style_profile' = rate_outfit(style_profile, outfits, clothes, 1, 5)
    /\ response' = [Response("rate", "ok") EXCEPT !.id = 1, !.rating = 5]
    /\ UNCHANGED <<clothes, outfits, connections>>

NextStreak ==
    \/ LearnLogStep
    \/ StreakRate

SpecStreak == InitLearn /\ [][NextStreak]_vars

\* ------------------------------------------- the recommender in any weather

\* casual items of every season weight in every category, sandals of either
\* spelling, and a top the logger has marked worn
WeatherKinds ==
    <<ClothesRow(0, "wardrobe_images/w1.jpg", "top", "#000000", "solid", "casual", "heavy"),
      ClothesRow(0, "wardrobe_images/w2.jpg", "top", "#ff0000", "striped", "casual", "light"),
      ClothesRow(0, "wardrobe_images/w3.jpg", "bottom", "#000000", "solid", "casual", "heavy"),
      ClothesRow(0, "wardrobe_images/w4.jpg", "bottom", "#0000ff", "floral", "casual", "light"),
      ClothesRow(0, "wardrobe_images/w5.jpg", "shoes", "#FFFFFF", "solid", "casual", "heavy"),
      ClothesRow(0, "wardrobe_images/sandal_1.jpg", "shoes", "#808080", "solid", "casual",
                 "light"),
      ClothesRow(0, "wardrobe_images/SANDALS.jpg", "shoes", "#808080", "solid", "casual",
                 "medium"),
      ClothesRow(0, "wardrobe_images/w6.jpg", "dress", "#ff0000", "floral", "casual", "light"),
      [ClothesRow(0, "wardrobe_images/w7.jpg", "top", "#909090", "solid", "casual", "medium")
         EXCEPT !.times_worn = 1, !.last_worn = NOW]>>

\* the wardrobes of n rows, ids in insertion order
WeatherWardrobes(n) ==
    {[i \in 1..n |-> [WeatherKinds[f[i]] EXCEPT !.id = i]] :
         f \in {g \in [1..n -> DOMAIN WeatherKinds] : \A i \in 1..n - 1 : g[i] <= g[i + 1]}}

InitWeather ==
    /\ clothes \in UNION {WeatherWardrobes(k) : k \in 0..WardrobeSize}
    /\ TablesEmpty

\* the temperatures on both sides of the two thresholds
Temperatures == {17, 18, 32, 33}

\* the number of suggestions asked for
MaxShown == 3

\* one call on the wardrobe drawn
WeatherOnce ==
    /\ response.op = "init"
    /\ \E temp \in Temperatures : \E condition \in Conditions : \E num \in {MaxShown} :
       \E n \in {Len(suggest_combos(clothes, "casual", Weather(temp, condition)))} :
       \E jitter \in SameJitter(n) :
           Suggest("casual", Weather(temp, condition), num, jitter)

SpecWeather == InitWeather /\ [][WeatherOnce]_vars

\* ------------------------------------------- overlapping rate_outfit calls

\* Each rate_outfit call opens its own connection. Its first statement, the
\* INSERT of the rating, begins a transaction that takes the write lock of the
\* database file; everything the call writes stays private to the connection
\* until conn.commit(), and is rolled back when the call ends without it.

\* the _update_preference statements of one item, in the order of the source
ItemStatements(table, item_id, rating) ==
    LET i == RowIndex(table, item_id)
        Statement(pref_type, pref_value) ==
            IF pref_value # ""
            THEN <<[pref_type |-> pref_type, pref_value |-> pref_value,
                    weight_change |-> (rating - 3) * 5]>>
            ELSE <<>>
    IN  IF i = 0
        THEN <<>>
        ELSE Statement("color", table[i].color_primary)
             \o Statement("formality", table[i].formality)
             \o Statement("pattern", table[i].pattern)

\* the _update_preference statements rate_outfit(outfit_id, rating) executes
Statements(logged, table, outfit_id, rating) ==
    LET i == RowIndex(logged, outfit_id)
    IN  IF i = 0
        THEN <<>>
        ELSE LET item_ids == RatedItemIds(logged[i])
             IN  Concat([k \in 1..Len(item_ids) |->
                             ItemStatements(table, item_ids[k], rating)])
                 \o (IF logged[i].occasion # ""
                     THEN <<[pref_type |-> "occasion", pref_value |-> logged[i].occasion,
                             weight_change |-> (rating - 3) * 3]>>
                     ELSE <<>>)

\* no connection holds the write lock
WriteLockFree == \A q \in Callers : connections[q].pc # "open"

CallsInFlight == {q \in Callers : connections[q].pc # "closed"}

\* rate_outfit(outfit_id, rating) is entered: sqlite3.connect
RateCall(p, outfit_id, rating) ==
    /\ connections[p].pc = "closed"
    /\ Len(outfit_ratings) + Cardinality(CallsInFlight) < MaxRatings
    /\ connections' = [connections EXCEPT ![p] =
                           [pc |-> "connected", outfit_id |-> outfit_id, rating |-> rating,
                            profile |-> <<>>, todo |-> <<>>, outcome |-> "",
                            contended |-> FALSE]]
    /\ UNCHANGED <<clothes, outfits, outfit_ratings, style_profile, response>>

\* the INSERT finds the write lock taken and the connection waits for it
RateWait(p) ==
    /\ connections[p].pc = "connected"
    /\ ~WriteLockFree
    /\ ~connections[p].contended
    /\ connections' = [connections EXCEPT ![p].contended = TRUE]
    /\ UNCHANGED <<clothes, outfits, outfit_ratings, style_profile, response>>

\* the wait runs out: sqlite3.OperationalError, database is locked
RateBusy(p) ==
    /\ connections[p].pc = "connected"
    /\ ~WriteLockFree
    /\ connections[p].contended
    /\ connections' = [connections EXCEPT ![p] = Closed("locked", TRUE)]
    /\ response' = [Response("rate", "OperationalError") EXCEPT
                      !.id = connections[p].outfit_id, !.rating = connections[p].rating]
    /\ UNCHANGED <<clothes, outfits, outfit_ratings, style_profile>>

\* the INSERT takes the write lock whoever holds it
RateBeginUnlocked(p) ==
    /\ connections[p].pc = "connected"
    /\ connections' = [connections EXCEPT ![p] =
                           [@ EXCEPT !.pc = "open",
                                     !.profile = style_profile,
                                     !.todo = Statements(outfits, clothes,
                                                         connections[p].outfit_id,
                                                         connections[p].rating)]]
    /\ UNCHANGED <<clothes, outfits, outfit_ratings, style_profile, response>>

\* the INSERT of the rating begins the transaction and takes the write lock; the
\* SELECTs that follow read the tables as committed
RateBegin(p) ==
    /\ connections[p].pc = "connected"
    /\ WriteLockFree
    /\ connections' = [connections EXCEPT ![p] =
                           [@ EXCEPT !.pc = "open",
                                     !.profile = style_profile,
                                     !.todo = Statements(outfits, clothes,
                                                         connections[p].outfit_id,
                                                         connections[p].rating)]]
    /\ UNCHANGED <<clothes, outfits, outfit_ratings, style_profile, response>>

\* one _update_preference on a connection that commits each statement at once
RateUpdateAutocommit(p) ==
    /\ connections[p].pc = "open"
    /\ connections[p].todo # <<>>
    /\ LET st == Head(connections[p].todo)
       IN  /\ connections' = [connections EXCEPT ![p] =
                   [@ EXCEPT !.profile = update_preference(@, st.pref_type, st.pref_value,
                                                           st.weight_change),
                             !.todo = Tail(@)]]
           /\ style_profile' = update_preference(style_profile, st.pref_type, st.pref_value,
                                                 st.weight_change)
    /\ UNCHANGED <<clothes, outfits, outfit_ratings, response>>

\* one _update_preference, inside the transaction
RateUpdate(p) ==
    /\ connections[p].pc = "open"
    /\ connections[p].todo # <<>>
    /\ LET st == Head(connections[p].todo)
       IN  connections' = [connections EXCEPT ![p] =
               [@ EXCEPT !.profile = update_preference(@, st.pref_type, st.pref_value,
                                                       st.weight_change),
                         !.todo = Tail(@)]]
    /\ UNCHANGED <<clothes, outfits, outfit_ratings, style_profile, response>>

\* conn.commit(); conn.close()
RateCommit(p) ==
    /\ connections[p].pc = "open"
    /\ connections[p].todo = <<>>
    /\ outfit_ratings' = Append(outfit_ratings, [outfit_id |-> connections[p].outfit_id,
                                                 rating |-> connections[p].rating])
    /\ style_profile' = connections[p].profile
    /\ connections' = [connections EXCEPT ![p] = Closed("committed", @.contended)]
    /\ response' = [Response("rate", "ok") EXCEPT
                      !.id = connections[p].outfit_id, !.rating = connections[p].rating]
    /\ UNCHANGED <<clothes, outfits>>

\* the call ends before conn.commit(): the transaction is rolled back; todo
\* keeps the statements the call never reached
RateInterrupt(p) ==
    /\ connections[p].pc = "open"
    /\ connections' = [connections EXCEPT ![p] =
                           [Closed("interrupted", @.contended) EXCEPT
                                !.todo = connections[p].todo]]
    /\ response' = [Response("rate", "interrupted") EXCEPT
                      !.id = connections[p].outfit_id, !.rating = connections[p].rating]
    /\ UNCHANGED <<clothes, outfits, outfit_ratings, style_profile>>

\* outfit 1 of three casual solid items is logged
InitConcurrent ==
    /\ \E req \in {LogRequest(1, 3, 4, 0, 0, "casual")} :
           /\ clothes = MarkAllWorn(Closet, LoggedSlots(req))
           /\ outfits = <<OutfitRow(1, req)>>
    /\ outfit_ratings = <<>>
    /\ style_profile = <<>>
    /\ response = Response("init", "ok")
    /\ NoCallInFlight

ConcurrentRatings == {1, 4, 5}

CallStep == \E p \in Callers : \E rating \in ConcurrentRatings : RateCall(p, 1, rating)

WaitStep == \E p \in Callers : RateWait(p)

BusyStep == \E p \in Callers : RateBusy(p)

BeginStep == \E p \in Callers : RateBegin(p)

UpdateStatementStep == \E p \in Callers : RateUpdate(p)

CommitStep == \E p \in Callers : RateCommit(p)

InterruptStep == \E p \in Callers : RateInterrupt(p)

NextConcurrent ==
    \/ CallStep
    \/ WaitStep
    \/ BusyStep
    \/ BeginStep
    \/ UpdateStatementStep
    \/ CommitStep
    \/ InterruptStep

SpecConcurrent == InitConcurrent /\ [][NextConcurrent]_vars

\* -------------------------------------------------------------- properties

\* the last call was a get_suggestions that returned its list
Suggested == response.op = "suggest" /\ response.status = "ok"

\* the combinations the last get_suggestions call generated (no table changes
\* between the call and the state that holds its response)
CallCombos == suggest_combos(clothes, response.occasion, response.weather)

CallScored ==
    score_outfits(CallCombos, response.weather, response.occasion, response.jitter)

ComboIndex(outfit) == CHOOSE i \in DOMAIN CallCombos : CallCombos[i] = outfit

\* the score the call gives the outfit when style_profile is empty
EmptyProfileScore(outfit) ==
    outfit_score(outfit, response.weather, response.jitter[ComboIndex(outfit)])

ItemDisjoint(a, b) == outfit_item_ids(a) \cap outfit_item_ids(b) = {}

ResultDisjoint ==
    \A i, j \in DOMAIN response.result :
        i < j => ItemDisjoint(response.result[i].outfit, response.result[j].outfit)

DisjointFamilyExists(combos, n) ==
    \E S \in SUBSET DOMAIN combos :
        /\ Cardinality(S) = n
        /\ \A i, j \in S : i < j => ItemDisjoint(combos[i], combos[j])

GreedyFills ==
    Len(FirstPass(CallScored, response.num, 1, <<(<<>>), {}>>)[1]) >= response.num

\* C1: every score get_suggestions returns is the outfit's score under an empty
\* profile, for the same jitter, plus apply_style_bonus of the outfit under the
\* weights stored at the time of the call.
C1_ScoreAddsStyleBonus ==
    Suggested =>
        \A i \in DOMAIN response.result :
            response.result[i].score =
                EmptyProfileScore(response.result[i].outfit)
                + apply_style_bonus(style_profile, response.result[i].outfit)

\* C2: the list get_suggestions returns is in descending score order over its
\* whole length, second-pass entries included.
C2_DescendingOrder ==
    Suggested =>
        \A i \in 1..Len(response.result) - 1 :
            response.result[i].score >= response.result[i + 1].score

\* the returned list holds min(num, combinations) entries, none twice
ReturnedCount ==
    /\ Len(response.result) = Min(response.num, Len(CallCombos))
    /\ Len(response.result) <= response.num
    /\ \A i, j \in DOMAIN response.result :
           i < j => response.result[i].outfit # response.result[j].outfit

\* C3: every get_suggestions call returns exactly min(num, number of generated
\* combinations) entries, never more than num, no combination twice.
C3_ReturnsMinCount == response.op = "suggest" => response.status = "ok" /\ ReturnedCount

\* the same of the calls that return: what _select_diverse_outfits alone ensures
SelectionCount == Suggested => ReturnedCount

\* C4: when the generated combinations hold num pairwise item-disjoint outfits,
\* no two returned outfits share an item id; and outfits that share an item are
\* returned only when the greedy pass over the sorted list cannot fill num slots.
C4_Diversity ==
    Suggested =>
        /\ DisjointFamilyExists(CallCombos, response.num) => ResultDisjoint
        /\ ~ResultDisjoint => ~GreedyFills

\* a call that had more combinations than slots, filled them all with disjoint
\* outfits and passed over a better-scored outfit that shared an item
C4_Witness ==
    /\ Suggested
    /\ response.num >= 2
    /\ Len(CallCombos) > response.num
    /\ Len(response.result) = response.num
    /\ ResultDisjoint
    /\ \E k \in DOMAIN CallScored :
           /\ CallScored[k] \notin Range(response.result)
           /\ CallScored[k].score > response.result[Len(response.result)].score

\* C5: no returned outfit holds an item whose in_laundry flag is set at the time
\* of the call, and a row is in the candidate pool exactly when its flag is
\* clear (so an item toggled back is a candidate again).
C5_NoLaundryItemSuggested ==
    /\ Suggested =>
           \A i \in DOMAIN response.result :
               \A id \in outfit_item_ids(response.result[i].outfit) :
                   clothes[RowIndex(clothes, id)].in_laundry = 0
    /\ \A r \in DOMAIN clothes :
           clothes[r].in_laundry = 0
               <=> \E k \in DOMAIN get_all_clothes(clothes) :
                       get_all_clothes(clothes)[k].id = clothes[r].id

\* outfits were returned while an item was in laundry
C5_Witness ==
    /\ Suggested
    /\ response.result # <<>>
    /\ \E r \in DOMAIN clothes : clothes[r].in_laundry = 1

\* C6: in every step no row's times_worn decreases, and it changes only in a
\* step of the outfit logger (the log route or app.log_outfit).
C6_WearCountOnlyByLogging ==
    [][\A r \in DOMAIN clothes :
           /\ clothes'[r].times_worn >= clothes[r].times_worn
           /\ clothes'[r].times_worn # clothes[r].times_worn
                  => response'.op \in {"log", "wear"}]_vars

\* an update of a worn item went through and left its count alone
C6_Witness ==
    /\ response.op = "update"
    /\ response.status = "ok"
    /\ clothes[1].times_worn >= 1

\* the ids a logged row names in its slots
ReferencedIds(row) == {id \in Range(LoggedSlots(row)) : IsSet(id)}

\* C7: a step of the log route adds one outfits row, adds exactly 1 to times_worn
\* of every row the request names in a slot and leaves the other rows' counts.
C7_LogIncrementsEachItemOnce ==
    [][response'.op = "log" =>
           /\ Len(outfits') = Len(outfits) + 1
           /\ \A r \in DOMAIN clothes :
                  clothes'[r].times_worn =
                      clothes[r].times_worn
                      + (IF clothes[r].id \in ReferencedIds(outfits'[Len(outfits')])
                         THEN 1 ELSE 0)]_vars

\* C8: after rate calls with ratings 1..5 and resets every stored weight lies
\* in [0.0, 5.0] and no two rows share (preference_type, preference_value).
C8_WeightsClampedAndUnique ==
    /\ \A i \in DOMAIN style_profile :
           style_profile[i].weight >= 0 /\ style_profile[i].weight <= 50
    /\ \A i, j \in DOMAIN style_profile :
           (/\ style_profile[i].preference_type = style_profile[j].preference_type
            /\ style_profile[i].preference_value = style_profile[j].preference_value)
               => i = j

\* two 5-star ratings of a three-item outfit: the shared formality key was
\* pushed past 5.0 and stands at 5.0, beside keys touched once
C8_Witness ==
    /\ Len(outfit_ratings) = 2
    /\ \A k \in DOMAIN outfit_ratings : outfit_ratings[k].rating = 5
    /\ PreferenceWeight(style_profile, "formality", "casual") = 50
    /\ Len(style_profile) >= 2

\* C9: after a rate call with any rating, no stored rating is outside [1,5] and
\* no stored weight is outside [0.0, 5.0].
C9_InvalidRatingContained ==
    /\ \A k \in DOMAIN outfit_ratings :
           outfit_ratings[k].rating >= 1 /\ outfit_ratings[k].rating <= 5
    /\ \A i \in DOMAIN style_profile :
           style_profile[i].weight >= 0 /\ style_profile[i].weight <= 50

\* C10: a rate call whose outfit id names no outfits row signals NotFound.
C10_RateSignalsNotFound ==
    (response.op = "rate" /\ RowIndex(outfits, response.id) = 0)
        => response.status = "NotFound"

\* C11: a rate call whose outfit id names no outfits row leaves style_profile as
\* it was and appends exactly one outfit_ratings record, with the id and rating
\* given.
C11_UnknownOutfitRatingRecordedOnly ==
    [][(response'.op = "rate" /\ RowIndex(outfits, response'.id) = 0) =>
           /\ style_profile' = style_profile
           /\ outfit_ratings' = Append(outfit_ratings, [outfit_id |-> response'.id,
                                                        rating |-> response'.rating])]_vars

\* a rating of an outfit id without a row, made when weights were already learned
C11_Witness ==
    /\ response.op = "rate"
    /\ RowIndex(outfits, response.id) = 0
    /\ style_profile # <<>>
    /\ outfit_ratings[Len(outfit_ratings)] = [outfit_id |-> response.id,
                                              rating |-> response.rating]

\* a rate call has just learned from an outfits row
RatedLogged == response'.op = "rate" /\ RowIndex(outfits, response'.id) # 0

RatedRow == outfits[RowIndex(outfits, response'.id)]

PrefTypes == {"color", "formality", "pattern", "occasion"}

\* every value a key of the profile can have
PrefValues ==
    UNION {{clothes[r].color_primary, clothes[r].formality, clothes[r].pattern} :
               r \in DOMAIN clothes} \cup KnownOccasions

AttrOf(row, pref_type) ==
    CASE pref_type = "color" -> row.color_primary
      [] pref_type = "formality" -> row.formality
      [] pref_type = "pattern" -> row.pattern
      [] OTHER -> ""

\* one nudge of a weight, -1 standing for a key not stored yet
Nudged(w, delta) == IF w = -1 THEN 10 + delta ELSE Max(0, Min(50, w + delta))

RECURSIVE NudgedTimes(_, _, _)
NudgedTimes(w, delta, n) == IF n = 0 THEN w ELSE NudgedTimes(Nudged(w, delta), delta, n - 1)

\* the slots among the given ones whose id names an item with the value for
\* the attribute
SlotsWith(slots, row, pref_type, pref_value) ==
    {slot \in slots :
        /\ IsSet(row[slot])
        /\ RowIndex(clothes, row[slot]) # 0
        /\ AttrOf(clothes[RowIndex(clothes, row[slot])], pref_type) = pref_value}

\* every slot of an outfits row that references an item
ItemSlots == {"top_id", "bottom_id", "shoes_id", "dress_id", "outerwear_id"}

\* the weight a key has after the call when its attribute keys are nudged n times
NudgedWeight(pref_type, pref_value, n) ==
    LET w == PreferenceWeight(style_profile, pref_type, pref_value)
    IN  IF pref_type = "occasion"
        THEN (IF pref_value = RatedRow.occasion
              THEN Nudged(w, (response'.rating - 3) * 3) ELSE w)
        ELSE NudgedTimes(w, (response'.rating - 3) * 5, n)

\* C12: a rate call with rating r in 1..5 on a logged outfit nudges, once per
\* referenced item, the item's colour, formality and pattern weights by
\* (r-3)*0.5 and the occasion weight once by (r-3)*0.3, each nudge clamped into
\* [0,5] or 1.0 + delta on an unseen key, and leaves every other key alone.
C12_RateNudgesEveryReferencedItem ==
    [][RatedLogged =>
           \A t \in PrefTypes : \A v \in PrefValues :
               PreferenceWeight(style_profile', t, v)
                   = NudgedWeight(t, v, Cardinality(SlotsWith(ItemSlots, RatedRow, t, v)))]_vars

\* the same over the top, bottom and shoes slots alone: the nudges rate_outfit
\* does make
LearnedFromSlots ==
    [][RatedLogged =>
           \A t \in PrefTypes : \A v \in PrefValues :
               PreferenceWeight(style_profile', t, v)
                   = NudgedWeight(t, v, Cardinality(SlotsWith({"top_id", "bottom_id", "shoes_id"},
                                                                RatedRow, t, v)))]_vars

\* the weight of a key, 1.0 for a key not stored
BaseWeight(profile, pref_type, pref_value) ==
    LET w == PreferenceWeight(profile, pref_type, pref_value)
    IN  IF w = -1 THEN 10 ELSE w

\* the slots among the given ones through which the rated row has a formal item
FormalSlots(slots) == SlotsWith(slots, RatedRow, "formality", "formal")

\* no weight moves against the rating
RatingDirection ==
    \A t \in PrefTypes : \A v \in PrefValues :
        /\ response'.rating < 3 =>
               BaseWeight(style_profile', t, v) <= BaseWeight(style_profile, t, v)
        /\ response'.rating > 3 =>
               BaseWeight(style_profile', t, v) >= BaseWeight(style_profile, t, v)

\* C13: rating with 1 a logged outfit that holds a formal item brings the formal
\* formality weight below its previous value (1.0 if unseen); a rating below 3
\* increases no weight and a rating above 3 decreases none.
C13_LowRatingLowersFormalWeight ==
    [][RatedLogged =>
           /\ (response'.rating = 1 /\ FormalSlots(ItemSlots) # {}) =>
                  BaseWeight(style_profile', "formality", "formal")
                      < BaseWeight(style_profile, "formality", "formal")
           /\ RatingDirection]_vars

\* what rate_outfit does ensure: no weight moves against the rating, and a
\* rating of 1 lowers the formal weight when the formal item is the top, the
\* bottom or the shoes and the weight is above 0.0
LowRatingLowersAboveFloor ==
    [][RatedLogged =>
           /\ (/\ response'.rating = 1
               /\ FormalSlots({"top_id", "bottom_id", "shoes_id"}) # {}
               /\ BaseWeight(style_profile, "formality", "formal") > 0) =>
                  BaseWeight(style_profile', "formality", "formal")
                      < BaseWeight(style_profile, "formality", "formal")
           /\ RatingDirection]_vars

\* one more 5-star rating of a logged outfit that references a colour through
\* one of the given slots takes the colour's weight w (1.0 when unseen) to
\* min(5.0, w + 1.0): from an unseen key that is min(5.0, 1.0 + k) after k of them
SaturationStep(slots) ==
    (RatedLogged /\ response'.rating = 5) =>
        \A v \in PrefValues :
            Cardinality(SlotsWith(slots, RatedRow, "color", v)) = 1 =>
                /\ PreferenceWeight(style_profile', "color", v)
                       = Min(50, BaseWeight(style_profile, "color", v) + 10)
                /\ PreferenceWeight(style_profile', "color", v) <= 50

\* C14: from an unseen colour key, k consecutive 5-star ratings of logged
\* outfits that each reference the colour through one item leave its weight at
\* min(5.0, 1.0 + k), never above 5.0 on the way and 5.0 after 100 of them.
C14_FiveStarSaturation == [][SaturationStep(ItemSlots)]_vars

\* the same when the colour is referenced through the top, bottom or shoes slot
SaturationFromSlots == [][SaturationStep({"top_id", "bottom_id", "shoes_id"})]_vars

EmptyPreferences == [colors |-> {}, formality |-> {}, patterns |-> {}, occasions |-> {}]

\* C15: after reset_profile, whatever was rated before, get_preferences returns
\* four empty mappings and apply_style_bonus is 0 for every outfit; a reset that
\* follows a reset changes nothing.
C15_ResetEmptiesProfile ==
    [][response'.op = "reset" =>
           /\ get_preferences(style_profile') = EmptyPreferences
           /\ \A k \in DOMAIN EveryOutfit : apply_style_bonus(style_profile', EveryOutfit[k]) = 0
           /\ response.op = "reset" =>
                  /\ style_profile' = style_profile
                  /\ UNCHANGED <<clothes, outfits, outfit_ratings>>]_vars

\* a reset that came after a logged outfit had been rated off the neutral 3
C15_Witness ==
    /\ response.op = "reset"
    /\ get_preferences(style_profile) = EmptyPreferences
    /\ \E k \in DOMAIN outfit_ratings :
           /\ outfit_ratings[k].rating # 3
           /\ RowIndex(outfits, outfit_ratings[k].outfit_id) # 0

\* C16: reset_profile deletes preference weights only: the rating records, and
\* so get_stats, the logged outfits and the clothes rows with their wear counts
\* are the same before and after it.
C16_ResetKeepsHistory ==
    [][response'.op = "reset" =>
           /\ outfit_ratings' = outfit_ratings
           /\ get_stats(outfit_ratings') = get_stats(outfit_ratings)
           /\ outfits' = outfits
           /\ clothes' = clothes]_vars

\* a reset with two ratings on record, an outfit logged and its items worn
C16_Witness ==
    /\ response.op = "reset"
    /\ style_profile = <<>>
    /\ get_stats(outfit_ratings).total_ratings = 2
    /\ get_stats(outfit_ratings).average_rating = 45
    /\ outfits # <<>>
    /\ \E r \in DOMAIN clothes : clothes[r].times_worn = 1

\* the outfit of the last apply_style_bonus call and what the call returned
BonusOutfit == response.result[1].outfit

\* the items the bonus is summed over: top, bottom and shoes if present, or
\* dress and shoes if present
BonusItems ==
    (IF BonusOutfit.type = "regular" THEN {BonusOutfit.top, BonusOutfit.bottom}
     ELSE {BonusOutfit.dress})
    \cup (IF BonusOutfit.shoes.id # 0 THEN {BonusOutfit.shoes} ELSE {})

Factor(pref_type) ==
    CASE pref_type = "color" -> 10
      [] pref_type = "formality" -> 8
      [] pref_type = "pattern" -> 5
      [] OTHER -> 0

\* what the learned keys add over the items, in tenths of a point: row by row
\* of the profile, the row's (weight - 1.0) * factor once per item with its value
RECURSIVE LearnedSum10(_)
LearnedSum10(profile) ==
    IF profile = <<>>
    THEN 0
    ELSE LET row == Head(profile)
         IN  Factor(row.preference_type) * (row.weight - 10)
                 * Cardinality({item \in BonusItems :
                                    AttrOf(item, row.preference_type) = row.preference_value})
             + LearnedSum10(Tail(profile))

\* the integer a sum in tenths converts to: digits after the point dropped
ToInt(tenths) == IF tenths < 0 THEN -((-tenths) \div 10) ELSE tenths \div 10

\* C17: apply_style_bonus(outfit) is the integer part of the sum, over the
\* outfit's items, of (w-1.0)*10 for a learned colour, (w-1.0)*8 for a learned
\* formality and (w-1.0)*5 for a learned pattern; unlearned values add 0 and
\* occasion weights add nothing.
C17_BonusFormula ==
    response.op = "bonus" => response.result[1].score = ToInt(LearnedSum10(style_profile))

\* a call whose sum is negative with a half point, on an outfit with an
\* unlearned pattern, under a profile that holds an occasion weight
C17_Witness ==
    /\ response.op = "bonus"
    /\ LearnedSum10(style_profile) < 0
    /\ LearnedSum10(style_profile) % 10 # 0
    /\ \E item \in BonusItems : PreferenceWeight(style_profile, "pattern", item.pattern) = -1
    /\ PreferenceWeight(style_profile, "occasion", "casual") # -1

\* the rows the last get_suggestions call read, and its buckets after the
\* occasion filter and after the weather filter
CallPool == get_all_clothes(clothes)

CallSuitable == filter_by_occasion(CallPool, response.occasion)

CallFiltered == filter_by_weather(CallSuitable, response.weather)

\* a top and a bottom pass both filters and a pair of shoes the occasion filter
HasRegularOutfit ==
    /\ CallFiltered.tops # <<>>
    /\ CallFiltered.bottoms # <<>>
    /\ CallSuitable.shoes # <<>>

\* C18: when the rows out of laundry hold a top, a bottom and a pair of shoes
\* that pass the occasion filter and, the top and the bottom, the temperature
\* filter, get_suggestions with num >= 1 returns at least one outfit, also in
\* rain with sandals as the only shoes.
C18_SuggestsWhenOutfitPossible ==
    (response.op = "suggest" /\ response.num >= 1 /\ HasRegularOutfit) =>
        response.status = "ok" /\ Len(response.result) >= 1

\* the same for a wardrobe no row of which has been worn
SuggestsWhenUnworn ==
    (/\ response.op = "suggest"
     /\ response.num >= 1
     /\ HasRegularOutfit
     /\ \A r \in DOMAIN clothes : clothes[r].last_worn = NULL) =>
        response.status = "ok" /\ Len(response.result) >= 1

\* the rows out of laundry
Usable == {r \in DOMAIN clothes : clothes[r].in_laundry = 0}

\* no dress and not both a top and a bottom are left after the two filters
NothingToCombine ==
    /\ CallFiltered.dresses = <<>>
    /\ CallFiltered.tops = <<>> \/ CallFiltered.bottoms = <<>>

\* C19: get_suggestions returns an empty list, and raises nothing, when fewer
\* than 2 rows are out of laundry or when the filters leave no dress and not both
\* a top and a bottom.
C19_EmptyListWhenNothingToCombine ==
    (response.op = "suggest" /\ (Cardinality(Usable) < 2 \/ NothingToCombine)) =>
        response.status = "ok" /\ response.result = <<>>

\* a call on two or more usable rows, one of them worn and of a suitable
\* formality, that had nothing to combine
C19_Witness ==
    /\ response.op = "suggest"
    /\ Cardinality(Usable) >= 2
    /\ NothingToCombine
    /\ \E r \in Usable :
           /\ clothes[r].last_worn # NULL
           /\ clothes[r].formality \in occasion_rules(response.occasion)
    /\ response.result = <<>>

\* C20: for an occasion outside the seven known ones, _filter_by_occasion
\* produces the five buckets it produces for occasion casual on the same rows.
C20_UnknownOccasionIsCasual ==
    (response.op = "suggest" /\ response.occasion \notin KnownOccasions) =>
        CallSuitable = filter_by_occasion(CallPool, "casual")

\* the wardrobe after the logger has counted one more wear of a row
WornOnceMore(r) == MarkWorn(clothes, clothes[r].id)

\* the combinations of the same call on that wardrobe: the same outfits in the
\* same order, one item with a higher wear count
CombosWornOnceMore(r) == suggest_combos(WornOnceMore(r), response.occasion, response.weather)

\* C21: of two wardrobe states that differ only in the wear count of one item,
\* the same outfit scores, under the same jitter, at least as much in the state
\* with the lower count; per item the variety points are +10 for count 0, +5
\* for 1-2, 0 for 3-9 and -5 from 10 on.
C21_LowerWearCountScoresAtLeast ==
    (Suggested /\ response.result # <<>>) =>
        \A r \in DOMAIN clothes :
            /\ ~score_raises(CombosWornOnceMore(r))
            /\ \A i \in DOMAIN CallCombos :
                   /\ outfit_score(CallCombos[i], response.weather, response.jitter[i])
                          >= outfit_score(CombosWornOnceMore(r)[i], response.weather,
                                          response.jitter[i])
                   /\ score_variety(CombosWornOnceMore(r)[i])
                          = SumSeq([k \in DOMAIN OutfitItems(CallCombos[i]) |->
                                LET row == WornOnceMore(r)[RowIndex(clothes,
                                               OutfitItems(CallCombos[i])[k].id)]
                                IN  IF row.times_worn = 0 THEN 10
                                    ELSE IF row.times_worn <= 2 THEN 5
                                    ELSE IF row.times_worn <= 9 THEN 0
                                    ELSE -5])

\* the arithmetic of _score_variety on integer counts: the four bands, and no
\* count that earns more than a lower one
VarietyBands ==
    \A a \in 0..15 :
        /\ variety_points(a) = (IF a = 0 THEN 10 ELSE IF a <= 2 THEN 5
                                ELSE IF a <= 9 THEN 0 ELSE -5)
        /\ \A b \in a..15 : variety_points(a) >= variety_points(b)

\* the rated row is a dress outfit: a dress and neither top nor bottom
RatedDressOutfit ==
    /\ RatedLogged
    /\ IsSet(RatedRow.dress_id) /\ RowIndex(clothes, RatedRow.dress_id) # 0
    /\ ~IsSet(RatedRow.top_id) /\ ~IsSet(RatedRow.bottom_id)

RatedDress == clothes[RowIndex(clothes, RatedRow.dress_id)]

\* C24: rating a logged dress outfit with a rating other than 3 nudges the
\* colour, formality and pattern weights of the dress: each of the three keys
\* is stored afterwards and has moved with the rating, short of the clamp.
C24_RateLearnsFromDress ==
    [][(RatedDressOutfit /\ response'.rating \in 1..5 /\ response'.rating # 3) =>
           \A t \in {"color", "formality", "pattern"} :
               LET before == BaseWeight(style_profile, t, AttrOf(RatedDress, t))
                   after == PreferenceWeight(style_profile', t, AttrOf(RatedDress, t))
               IN  /\ after # -1
                   /\ response'.rating > 3 => (after > before \/ after = 50)
                   /\ response'.rating < 3 => (after < before \/ after = 0)]_vars

\* what rate_outfit does learn from a dress outfit: the shoes and the occasion
RateLearnsFromShoesOfDressOutfit ==
    [][(RatedDressOutfit /\ response'.rating \in 1..5 /\ response'.rating # 3) =>
           /\ PreferenceWeight(style_profile', "occasion", RatedRow.occasion) # -1
           /\ \A t \in {"color", "formality", "pattern"} : \A v \in PrefValues :
                  PreferenceWeight(style_profile', t, v)
                      = NudgedWeight(t, v, Cardinality(SlotsWith({"shoes_id"}, RatedRow, t, v)))]_vars

\* the variety points of an outfit from the times_worn column of its items
WearCountVariety(outfit) ==
    SumSeq([k \in DOMAIN OutfitItems(outfit) |->
               variety_points(clothes[RowIndex(clothes, OutfitItems(outfit)[k].id)].times_worn)])

SomeItemWorn == \E r \in DOMAIN clothes : clothes[r].times_worn >= 1

\* C25: once the logger has counted a wear of an item, every get_suggestions
\* call completes without error and scores variety from the times_worn column
\* the logger wrote.
C25_SuggestReadsLoggedWearCount ==
    (response.op = "suggest" /\ SomeItemWorn) =>
        /\ response.status = "ok"
        /\ \A i \in DOMAIN response.result :
               response.result[i].score
                   = 50 + score_weather(response.result[i].outfit, response.weather)
                     + score_colors(response.result[i].outfit)
                     + WearCountVariety(response.result[i].outfit)
                     + score_patterns(response.result[i].outfit)
                     + response.jitter[ComboIndex(response.result[i].outfit)]

\* on a wardrobe no item of which was worn the call does read the count it
\* would read from the column: every item scores as never worn
UnwornWardrobeScoresFromCount ==
    (response.op = "suggest" /\ ~SomeItemWorn) =>
        /\ response.status = "ok"
        /\ \A i \in DOMAIN response.result :
               score_variety(response.result[i].outfit)
                   = WearCountVariety(response.result[i].outfit)

\* some generated combination holds the top and the bottom
PairGenerated(top, bottom) ==
    \E i \in DOMAIN CallCombos :
        /\ CallCombos[i].type = "regular"
        /\ CallCombos[i].top = top
        /\ CallCombos[i].bottom = bottom

\* every top and bottom of these season weights that passed the occasion filter
\* are still combined
WeightsKept(seasons) ==
    \A i \in DOMAIN CallSuitable.tops : \A j \in DOMAIN CallSuitable.bottoms :
        (CallSuitable.tops[i].season \in seasons /\ CallSuitable.bottoms[j].season \in seasons)
            => PairGenerated(CallSuitable.tops[i], CallSuitable.bottoms[j])

\* no returned regular outfit has a top or a bottom of the season weight
NoneReturnedOf(season) ==
    \A i \in DOMAIN response.result :
        response.result[i].outfit.type = "regular" =>
            /\ response.result[i].outfit.top.season # season
            /\ response.result[i].outfit.bottom.season # season

\* every dress that passed the occasion filter is combined, and with every pair
\* of shoes that passed it and is not a sandal in rain
DressesAndShoesKept ==
    \A d \in DOMAIN CallSuitable.dresses :
        /\ \E i \in DOMAIN CallCombos : CallCombos[i].dress = CallSuitable.dresses[d]
        /\ \A s \in DOMAIN CallSuitable.shoes :
               (response.weather.condition \in RainConditions
                    => NotSandal(CallSuitable.shoes[s])) =>
                   \E i \in DOMAIN CallCombos :
                       /\ CallCombos[i].dress = CallSuitable.dresses[d]
                       /\ CallCombos[i].shoes = CallSuitable.shoes[s]

\* the call went past its two early returns and filtered by weather
WeatherFilterReached ==
    /\ response.op = "suggest"
    /\ Len(CallPool) >= 2
    /\ (CallSuitable.tops # <<>> /\ CallSuitable.bottoms # <<>>) \/ CallSuitable.dresses # <<>>

\* C26: below 18 degrees no returned regular outfit has a light top or bottom,
\* above 32 none has a heavy one; from 18 to 32, both ends included, no top or
\* bottom is removed for its weight; dresses and shoes are never removed for
\* temperature.
C26_TemperatureFilter ==
    /\ response.weather.temp < 18 => NoneReturnedOf("light")
    /\ response.weather.temp > 32 => NoneReturnedOf("heavy")
    /\ WeatherFilterReached =>
           /\ response.weather.temp < 18 => WeightsKept({"medium", "heavy"})
           /\ response.weather.temp > 32 => WeightsKept({"light", "medium"})
           /\ response.weather.temp \in 18..32 => WeightsKept(SeasonWeights)
           /\ DressesAndShoesKept

\* at exactly 18 degrees a light top is returned beside a heavy bottom
C26_Witness ==
    /\ Suggested
    /\ response.weather.temp = 18
    /\ \E i \in DOMAIN response.result :
           /\ response.result[i].outfit.type = "regular"
           /\ response.result[i].outfit.top.season = "light"
           /\ response.result[i].outfit.bottom.season = "heavy"

\* no returned outfit wears sandals
NoSandalReturned ==
    \A i \in DOMAIN response.result :
        response.result[i].outfit.shoes # None => NotSandal(response.result[i].outfit.shoes)

\* the rain took every pair of shoes the occasion filter had left, and a dress
\* or a top and a bottom remain
RainTookAllShoes ==
    /\ WeatherFilterReached
    /\ response.weather.condition \in RainConditions
    /\ CallSuitable.shoes # <<>>
    /\ CallFiltered.shoes = <<>>
    /\ (CallFiltered.tops # <<>> /\ CallFiltered.bottoms # <<>>) \/ CallFiltered.dresses # <<>>

\* the call returned outfits, each with an empty shoes slot
ReturnedWithoutShoes ==
    /\ response.status = "ok"
    /\ response.result # <<>>
    /\ \A i \in DOMAIN response.result : response.result[i].outfit.shoes = None

\* C27: when the condition contains Rain, no returned outfit has shoes whose
\* image path contains sandal in any letter case; and when that removes every
\* pair of shoes the call does not fail: it returns outfits with an empty shoes
\* slot.
C27_RainRemovesSandals ==
    (response.op = "suggest" /\ response.weather.condition \in RainConditions) =>
        /\ NoSandalReturned
        /\ RainTookAllShoes => ReturnedWithoutShoes

\* the same for a wardrobe no row of which has been worn
RainRemovesSandalsUnworn ==
    (/\ response.op = "suggest"
     /\ response.weather.condition \in RainConditions
     /\ \A r \in DOMAIN clothes : clothes[r].last_worn = NULL) =>
        /\ NoSandalReturned
        /\ RainTookAllShoes => ReturnedWithoutShoes

\* the sandals filter alone, worn rows or not
SandalsNeverReturnedInRain ==
    (response.op = "suggest" /\ response.weather.condition \in RainConditions) => NoSandalReturned

\* the combinations of a type among those the call generated
CombosOfType(type) == {i \in DOMAIN CallCombos : CallCombos[i].type = type}

\* the shoes slots to fill: every pair of shoes left, or the empty slot alone
ShoeSlots ==
    IF CallFiltered.shoes = <<>> THEN {None} ELSE Range(CallFiltered.shoes)

\* every slot holds an item of its own category, an absent slot none
SlotsInCategory(outfit) ==
    /\ outfit.shoes # None => outfit.shoes.type = "shoes"
    /\ IF outfit.type = "regular"
       THEN outfit.top.type = "top" /\ outfit.bottom.type = "bottom" /\ outfit.dress = None
       ELSE outfit.dress.type = "dress" /\ outfit.top = None /\ outfit.bottom = None

\* C28: the combinations generated are the full Cartesian product, each once:
\* T*B*S regular and D*S dress outfits for S > 0 pairs of shoes, T*B regular and
\* D dress outfits with an empty shoes slot for S = 0; every slot holds an item
\* of its own category.
C28_FullCartesianProduct ==
    WeatherFilterReached =>
        LET T == Len(CallFiltered.tops)
            B == Len(CallFiltered.bottoms)
            S == Len(CallFiltered.shoes)
            D == Len(CallFiltered.dresses)
        IN  /\ Cardinality(CombosOfType("regular")) = T * B * (IF S > 0 THEN S ELSE 1)
            /\ Cardinality(CombosOfType("dress")) = D * (IF S > 0 THEN S ELSE 1)
            /\ Len(CallCombos) = Cardinality(Range(CallCombos))
            /\ \A t \in Range(CallFiltered.tops) : \A b \in Range(CallFiltered.bottoms) :
               \A sh \in ShoeSlots :
                   RegularOutfit(t, b, sh) \in Range(CallCombos)
            /\ \A d \in Range(CallFiltered.dresses) : \A sh \in ShoeSlots :
                   DressOutfit(d, sh) \in Range(CallCombos)
            /\ \A i \in DOMAIN CallCombos : SlotsInCategory(CallCombos[i])

\* a call that had two tops, a bottom and a dress to combine and no shoes
C28_Witness ==
    /\ Suggested
    /\ WeatherFilterReached
    /\ CallFiltered.shoes = <<>>
    /\ Len(CallFiltered.tops) = 2
    /\ Len(CallFiltered.bottoms) = 1
    /\ Len(CallFiltered.dresses) = 1
    /\ Len(CallCombos) = 3

\* C29: get_suggestions is read-only: a call leaves the clothes table (wear
\* counts, laundry and favorite flags included), the logged outfits, the
\* ratings and the preference weights as they were.
C29_SuggestReadOnly ==
    [][response'.op = "suggest" =>
           UNCHANGED <<clothes, outfits, outfit_ratings, style_profile>>]_vars

\* a call that returned outfits with an outfit logged and rated, weights
\* learned, an item worn and an item in the laundry
C29_Witness ==
    /\ Suggested
    /\ response.result # <<>>
    /\ outfits # <<>>
    /\ outfit_ratings # <<>>
    /\ style_profile # <<>>
    /\ \E r \in DOMAIN clothes : clothes[r].times_worn > 0
    /\ \E r \in DOMAIN clothes : clothes[r].in_laundry = 1

SimilarExcludesContrast ==
    \A a \in Colors : \A b \in Colors : ~(colors_similar(a, b) /\ high_contrast(a, b))

RECURSIVE SerialProfile(_, _)
SerialProfile(profile, rows) ==
    IF rows = <<>>
    THEN profile
    ELSE SerialProfile(rate_outfit(profile, outfits, clothes, Head(rows).outfit_id,
                                   Head(rows).rating),
                       Tail(rows))

\* C22: two rate calls that overlap and touch the same keys lose no update:
\* once both are committed every weight is the one of the two calls run one
\* after the other, in one of the two orders.
C22_NoLostUpdate ==
    Len(outfit_ratings) = 2 =>
        \/ style_profile = SerialProfile(<<>>, outfit_ratings)
        \/ style_profile = SerialProfile(<<>>, <<outfit_ratings[2], outfit_ratings[1]>>)

\* both callers committed a rating of outfit 1, one of them after waiting for
\* the write lock, and the two orders give different weights
C22_Witness ==
    /\ Len(outfit_ratings) = 2
    /\ \A p \in Callers : connections[p].pc = "closed" /\ connections[p].outcome = "committed"
    /\ \E p \in Callers : connections[p].contended
    /\ SerialProfile(<<>>, outfit_ratings)
           # SerialProfile(<<>>, <<outfit_ratings[2], outfit_ratings[1]>>)
    /\ style_profile = SerialProfile(<<>>, outfit_ratings)

\* the step ends the open call of caller p with the outcome
CallEnds(p, outcome) ==
    /\ connections[p].pc = "open"
    /\ connections'[p].pc = "closed"
    /\ connections'[p].outcome = outcome

\* C23: a rating event is all-or-nothing: whenever the stored weights change,
\* they change by all the updates of one rate call at once, and a call that is
\* interrupted before it completes leaves the stored weights and ratings as
\* they were before it began.
C23_RatingAllOrNothing ==
    [][/\ style_profile' # style_profile =>
              \E p \in Callers :
                  /\ CallEnds(p, "committed")
                  /\ style_profile' = rate_outfit(style_profile, outfits, clothes,
                                                  connections[p].outfit_id,
                                                  connections[p].rating)
       /\ \A p \in Callers :
              CallEnds(p, "interrupted") =>
                  UNCHANGED <<style_profile, outfit_ratings>>
       /\ \A p \in Callers :
              (connections[p].pc = "connected" /\ connections'[p].pc = "open") =>
                  connections'[p].profile = style_profile]_vars

\* a call was interrupted after some of its updates and before the others, and
\* the tables hold neither its rating nor a weight
C23_Witness ==
    /\ response.op = "rate" /\ response.status = "interrupted"
    /\ \E p \in Callers :
           /\ connections[p].outcome = "interrupted"
           /\ connections[p].todo # <<>>
           /\ Len(connections[p].todo)
                  < Len(Statements(outfits, clothes, response.id, response.rating))
    /\ style_profile = <<>>
    /\ outfit_ratings = <<>>

====
